---- MODULE Spec2Model ----
(***************************************************************************)
(* Model of src/app.py, the irrigation-turn viewer ("Turnos de riego").    *)
(*                                                                         *)
(* Text is modelled as a sequence of one-character strings, so that        *)
(* str.strip, str.upper, str.split, int() and strftime are computed the    *)
(* way Python computes them.  A calendar date is its ordinal in 2026       *)
(* (1 = 1 January 2026); an instant (column DT, datetime.now(TZ)) is the   *)
(* number of seconds of wall-clock time since 2026-01-01 00:00 in the      *)
(* fixed zone TZ.  The dates used lie in January and February, where       *)
(* Europe/Madrid has no clock change, so wall-clock and elapsed time       *)
(* agree.  One run of the script is taken to read the clock once.          *)
(***************************************************************************)
EXTENDS Integers, Sequences, FiniteSets, TLC

VARIABLES
  pc,           \* the step the program is at
  h,            \* parse_hora: its argument
  hora_t,       \* parse_hora: the time returned, or the failure raised
  tabla,        \* cargar_datos: the sheet as read_excel returns it, row by row
  df,           \* cargar_datos: the rows of the DataFrame returned (cached)
  orden,        \* the sheet row each row of df comes from (the index labels
                \* sort_values carries before reset_index drops them)
  now,          \* datetime.now(TZ) of the latest run of the script
  rango_atajo,  \* st.session_state["rango_atajo"]
  activo,       \* the button that stored rango_atajo: "hoy", "semana" or "none"
  turno_sel,    \* the "Turno" selectbox
  mes_sel,      \* the "Mes" selectbox
  q,            \* the quick-search text, stripped
  modo_movil,   \* the "Modo movil" toggle
  df_rango,     \* df_view after the selectors and the quick range (line 275)
  df_view,      \* df_view after the quick search (line 288)
  nxt,          \* the "Proximo turno" card, or None for the empty notice
  cal           \* the cells of the month calendar, <<>> when it is not drawn

parseVars == <<h, hora_t>>

loadVars == <<tabla, df, orden>>

widgetVars == <<turno_sel, mes_sel, q, modo_movil>>

viewVars == <<df_rango, df_view, nxt, cal>>

sessionVars == <<now, rango_atajo, activo, widgetVars, viewVars>>

vars == <<pc, parseVars, loadVars, sessionVars>>

(***************************************************************************)
(* Text helpers                                                            *)
(***************************************************************************)
SPACE == " "

Digits == {"0", "1", "2", "3", "4", "5", "6", "7", "8", "9"}

DigitVal(c) ==
  CASE c = "0" -> 0 [] c = "1" -> 1 [] c = "2" -> 2 [] c = "3" -> 3
    [] c = "4" -> 4 [] c = "5" -> 5 [] c = "6" -> 6 [] c = "7" -> 7
    [] c = "8" -> 8 [] c = "9" -> 9

\* decimal text of a number 0..99, as str() and "%d" write it
Dec(n) ==
  LET d(k) == CHOOSE c \in Digits : DigitVal(c) = k
  IN IF n < 10 THEN <<d(n)>> ELSE <<d(n \div 10), d(n % 10)>>

\* str.upper, one character
UpperChar(c) ==
  CASE c = "a" -> "A" [] c = "b" -> "B" [] c = "c" -> "C" [] c = "i" -> "I"
    [] c = "l" -> "L" [] c = "m" -> "M" [] c = "n" -> "N" [] c = "p" -> "P"
    [] c = "s" -> "S" [] c = "u" -> "U" [] c = "x" -> "X"
    [] OTHER -> c

\* str.lower, one character (the case folding of a case=False match)
LowerChar(c) ==
  CASE c = "A" -> "a" [] c = "B" -> "b" [] c = "C" -> "c" [] c = "I" -> "i"
    [] c = "L" -> "l" [] c = "M" -> "m" [] c = "N" -> "n" [] c = "P" -> "p"
    [] c = "S" -> "s" [] c = "U" -> "u" [] c = "X" -> "x"
    [] OTHER -> c

Upper(s) == [i \in 1..Len(s) |-> UpperChar(s[i])]

Lower(s) == [i \in 1..Len(s) |-> LowerChar(s[i])]

RECURSIVE LStrip(_)
LStrip(s) == IF s # <<>> /\ Head(s) = SPACE THEN LStrip(Tail(s)) ELSE s

RECURSIVE RStrip(_)
RStrip(s) ==
  IF s # <<>> /\ s[Len(s)] = SPACE THEN RStrip(SubSeq(s, 1, Len(s) - 1)) ELSE s

\* str.strip()
Strip(s) == RStrip(LStrip(s))

\* str.split(): the maximal runs of non-whitespace characters
RECURSIVE SplitFrom(_, _, _)
SplitFrom(s, cur, acc) ==
  IF s = <<>> THEN (IF cur = <<>> THEN acc ELSE Append(acc, cur))
  ELSE IF Head(s) = SPACE
       THEN SplitFrom(Tail(s), <<>>, IF cur = <<>> THEN acc ELSE Append(acc, cur))
       ELSE SplitFrom(Tail(s), Append(cur, Head(s)), acc)

Split(s) == SplitFrom(s, <<>>, <<>>)

\* the digits-and-underscores body int() accepts: digits, with single
\* underscores only between digits
IsIntBody(t) ==
  /\ t # <<>>
  /\ \A i \in 1..Len(t) : t[i] \in Digits \/ t[i] = "_"
  /\ t[1] \in Digits /\ t[Len(t)] \in Digits
  /\ \A i \in 1..(Len(t) - 1) : ~(t[i] = "_" /\ t[i + 1] = "_")

RECURSIVE IntBodyVal(_, _)
IntBodyVal(t, acc) ==
  IF t = <<>> THEN acc
  ELSE IF Head(t) = "_" THEN IntBodyVal(Tail(t), acc)
       ELSE IntBodyVal(Tail(t), 10 * acc + DigitVal(Head(t)))

\* int(token): an optional sign and a digit body; ok = FALSE is ValueError
IntParse(t) ==
  LET signed == t # <<>> /\ t[1] \in {"+", "-"}
      body == IF signed THEN Tail(t) ELSE t
  IN IF IsIntBody(body)
     THEN [ok |-> TRUE,
           v |-> IF signed /\ t[1] = "-" THEN 0 - IntBodyVal(body, 0)
                 ELSE IntBodyVal(body, 0)]
     ELSE [ok |-> FALSE, v |-> 0]

(***************************************************************************)
(* parse_hora                                                              *)
(***************************************************************************)
AM == <<"A", "M">>

PM == <<"P", "M">>

\* datetime.time(hour=hour, minute=0): ValueError unless hour is in 0..23
TimeOf(hour) ==
  IF hour \in 0..23 THEN [ok |-> TRUE, hour |-> hour, minute |-> 0]
  ELSE [ok |-> FALSE, hour |-> 0, minute |-> 0]

Failed == [ok |-> FALSE, hour |-> 0, minute |-> 0]

\* mutant of To24: 12 PM is shifted like every other PM hour
To24_NoNoonCase(hour, ampm) ==
  IF ampm = AM THEN (IF hour = 12 THEN 0 ELSE hour) ELSE hour + 12

\* the 12-hour to 24-hour branch of parse_hora
To24(hour, ampm) ==
  IF ampm = AM THEN (IF hour = 12 THEN 0 ELSE hour)
  ELSE (IF hour # 12 THEN hour + 12 ELSE hour)

parse_hora(label) ==
  LET s == Upper(Strip(label))
      parts == Split(s)
  IN IF Len(parts) # 2 THEN Failed
     ELSE LET n == IntParse(parts[1])
              ampm == parts[2]
          IN IF ~n.ok THEN Failed
             ELSE IF ampm \notin {AM, PM} THEN Failed
             ELSE TimeOf(To24(n.v, ampm))

(***************************************************************************)
(* cargar_datos                                                            *)
(***************************************************************************)
\* cells of the sheet: a missing cell (NaN), a text cell, a date cell
NaN == [k |-> "nan"]

Txt(s) == [k |-> "str", s |-> s]

Ts(d) == [k |-> "ts", d |-> d]

\* pd.to_datetime(cell, errors="coerce"): a date cell keeps its date; a missing
\* cell becomes NaT, and so does a text that is no date (the text cells of
\* the sheets below hold blanks or letters only)
ToDatetime(cell) == IF cell.k = "ts" THEN cell ELSE NaN

\* df.dropna(subset=["FECHA", "HORA", "TURNO"]): the rows kept
DropNa(t) ==
  {i \in 1..Len(t) :
     ToDatetime(t[i].FECHA) # NaN /\ t[i].HORA # NaN /\ t[i].TURNO # NaN}

\* datetime.combine(FECHA.date(), HORA_T, tzinfo=TZ), in seconds
Combine(fecha, hour) == ((fecha - 1) * 24 + hour) * 3600

\* one row after lines 185-191: fields trimmed, HORA_T and DT derived
Entry(row) ==
  LET hora == Strip(row.HORA.s)
      t == parse_hora(hora)
  IN [FECHA |-> ToDatetime(row.FECHA).d, HORA |-> hora,
      TURNO |-> Strip(row.TURNO.s), HORA_T |-> t.hour,
      DT |-> Combine(ToDatetime(row.FECHA).d, t.hour)]

\* the orders of the index labels in `idx`
Orders(idx) ==
  {o \in [1..Cardinality(idx) -> idx] :
     \A i, j \in 1..Cardinality(idx) : i # j => o[i] # o[j]}

\* mutant of SortValues: the rows are left in any order
SortValues_Unsorted(idx, key) == Orders(idx)

\* sort_values(col) with the default kind="quicksort", which is not a stable
\* sort: every order of the index labels that is ascending in the key, with
\* rows of equal key in any relative order
SortValues(idx, key) ==
  {o \in Orders(idx) : \A i \in 1..(Cardinality(idx) - 1) : key[o[i]] <= key[o[i + 1]]}

\* the outcomes of cargar_datos(): ok = FALSE when Series.apply(parse_hora)
\* raises ValueError, which no handler of the function catches
cargar_datos(t) ==
  LET kept == DropNa(t)
      entries == [i \in kept |-> Entry(t[i])]
      key == [i \in kept |-> entries[i].DT]
  IN IF \E i \in kept : ~parse_hora(Strip(t[i].HORA.s)).ok
     THEN {[ok |-> FALSE, df |-> <<>>, orden |-> <<>>]}
     ELSE {[ok |-> TRUE, df |-> [n \in 1..Cardinality(kept) |-> entries[o[n]]],
            orden |-> o] : o \in SortValues(kept, key)}

(***************************************************************************)
(* Calendar arithmetic of the year of the schedule                         *)
(***************************************************************************)
Year == 2026

DaysInMonth(m) ==
  CASE m \in {1, 3, 5, 7, 8, 10, 12} -> 31
    [] m \in {4, 6, 9, 11} -> 30
    [] m = 2 -> 28

\* the ordinal of the day before the first day of month m
MonthStart(m) ==
  CASE m = 1 -> 0 [] m = 2 -> 31 [] m = 3 -> 59 [] m = 4 -> 90
    [] m = 5 -> 120 [] m = 6 -> 151 [] m = 7 -> 181 [] m = 8 -> 212
    [] m = 9 -> 243 [] m = 10 -> 273 [] m = 11 -> 304 [] m = 12 -> 334

\* Timestamp.month and Timestamp.day of a date of the year
MonthOf(d) == CHOOSE m \in 1..12 : MonthStart(m) < d /\ d <= MonthStart(m) + DaysInMonth(m)

DayOf(d) == d - MonthStart(MonthOf(d))

\* date.weekday(): Monday is 0; 1 January 2026 is a Thursday
Weekday(d) == (d + 2) % 7

\* datetime.now(TZ).date()
DateOf(t) == (t \div 86400) + 1

\* "%02d" of a number below 100
Fmt2(n) == IF n < 10 THEN <<"0">> \o Dec(n) ELSE Dec(n)

\* strftime("%m/%Y") and strftime("%d/%m/%y") of a date of the year
MonthLabel(d) == Fmt2(MonthOf(d)) \o <<"/">> \o Dec(Year \div 100) \o Fmt2(Year % 100)

FechaStr(d) == Fmt2(DayOf(d)) \o <<"/">> \o Fmt2(MonthOf(d)) \o <<"/">> \o Fmt2(Year % 100)

(***************************************************************************)
(* Filters of the script                                                   *)
(***************************************************************************)
TODOS == <<"(", "T", "o", "d", "o", "s", ")">>

None == [k |-> "none"]

\* "rango_atajo" not yet in st.session_state
Absent == [k |-> "absent"]

\* lines 236-237
FilterTurno(d, sel) ==
  IF sel # TODOS THEN LET Keep(r) == r.TURNO = sel IN SelectSeq(d, Keep) ELSE d

\* lines 239-240
FilterMes(d, sel) ==
  IF sel # TODOS THEN LET Keep(r) == MonthLabel(r.FECHA) = sel IN SelectSeq(d, Keep)
  ELSE d

\* the tuple (start_dt, end_dt) kept in the session state
Rango(a, b) == [k |-> "rango", a |-> a, b |-> b]

\* the value stored by the "Hoy" button
RangoHoy(today) == Rango(Combine(today, 0), Combine(today + 1, 0))

\* the value stored by the "Esta semana" button
RangoSemana(today) ==
  LET start_week == today - Weekday(today)
      end_week == start_week + 7
  IN Rango(Combine(start_week, 0), Combine(end_week, 0))

\* mutant of Atajo: "Esta semana" does not replace a range that is active
Atajo_SemanaKeepsActive(rango, today, hoy_click, semana_click, reset_click) ==
  LET r1 == IF hoy_click THEN RangoHoy(today) ELSE rango
      r2 == IF semana_click /\ r1 = None THEN RangoSemana(today) ELSE r1
  IN IF reset_click THEN None ELSE r2

\* lines 258-271: session_state["rango_atajo"] after the three buttons
Atajo(rango, today, hoy_click, semana_click, reset_click) ==
  LET r1 == IF hoy_click THEN RangoHoy(today) ELSE rango
      r2 == IF semana_click THEN RangoSemana(today) ELSE r1
  IN IF reset_click THEN None ELSE r2

\* lines 273-275
FilterRango(d, rango) ==
  IF rango # None
  THEN LET Keep(r) == r.DT >= rango.a /\ r.DT < rango.b IN SelectSeq(d, Keep)
  ELSE d

(***************************************************************************)
(* Quick search: Series.str.contains(q, case=False), whose default         *)
(* regex=True hands q to re.search as a pattern under re.IGNORECASE        *)
(***************************************************************************)
\* re.compile(q) over the characters a query is drawn from: a letter, digit,
\* blank or "/" is a literal, "." is any character, "+" repeats the item
\* before it, "(" opens a group.  No query holds ")", so every "(" is an
\* unterminated group; a "+" that follows no item has nothing to repeat.
\* Both raise re.error (ok = FALSE).
RECURSIVE Compile(_, _)
Compile(pat, items) ==
  IF pat = <<>> THEN [ok |-> TRUE, items |-> items]
  ELSE IF Head(pat) = "(" THEN [ok |-> FALSE, items |-> <<>>]
  ELSE IF Head(pat) = "+"
       THEN IF items = <<>> \/ items[Len(items)].plus
            THEN [ok |-> FALSE, items |-> <<>>]
            ELSE Compile(Tail(pat),
                         [items EXCEPT ![Len(items)].plus = TRUE])
  ELSE Compile(Tail(pat),
               Append(items, [c |-> Head(pat), any |-> Head(pat) = ".", plus |-> FALSE]))

\* one pattern item against one character, ignoring case
ItemMatches(it, ch) == it.any \/ LowerChar(it.c) = LowerChar(ch)

RECURSIVE MatchAt(_, _, _)
\* whether the items match the text from position pos on
MatchAt(items, text, pos) ==
  IF items = <<>> THEN TRUE
  ELSE LET it == Head(items)
       IN IF it.plus
          THEN \E n \in 1..(Len(text) - pos + 1) :
                 /\ \A j \in 0..(n - 1) : ItemMatches(it, text[pos + j])
                 /\ MatchAt(Tail(items), text, pos + n)
          ELSE /\ pos <= Len(text)
               /\ ItemMatches(it, text[pos])
               /\ MatchAt(Tail(items), text, pos + 1)

\* re.search: a match starting anywhere in the text
Search(items, text) == \E pos \in 1..(Len(text) + 1) : MatchAt(items, text, pos)

\* lines 280-288: the view after the quick search; ok = FALSE when
\* str.contains raises re.error and the run of the script ends there
Buscar(d, query) ==
  IF query = <<>> THEN [ok |-> TRUE, view |-> d]
  ELSE LET re == Compile(query, <<>>)
           Keep(r) == \/ Search(re.items, r.TURNO)
                      \/ Search(re.items, r.HORA)
                      \/ Search(re.items, FechaStr(r.FECHA))
       IN IF re.ok THEN [ok |-> TRUE, view |-> SelectSeq(d, Keep)]
          ELSE [ok |-> FALSE, view |-> <<>>]

(***************************************************************************)
(* Next turn (lines 295-316)                                               *)
(***************************************************************************)
\* mutant of Gap: the hours are taken from the whole duration, not from
\* what is left of it after the days
Gap_HoursOfTotal(delta) ==
  [days |-> delta \div 86400,
   hours |-> delta \div 3600,
   mins |-> ((delta % 86400) % 3600) \div 60]

\* delta.days, delta.seconds // 3600, (delta.seconds % 3600) // 60
Gap(delta) ==
  LET days == delta \div 86400
      seconds == delta % 86400
  IN [days |-> days, hours |-> seconds \div 3600, mins |-> (seconds % 3600) \div 60]

\* the labels sort_values(col) can put first: those of least key (the first
\* elements of the orders of SortValues)
FirstSorted(idx, key) == {i \in idx : \A j \in idx : key[i] <= key[j]}

\* the cards the "Proximo turno" section can show: the empty notice when no
\* entry of the view is at or after t (now), else the first row of the future
\* entries sorted by DT, with the time left until it
Proximo(d, t) ==
  LET Future(r) == r.DT >= t
      df_future == SelectSeq(d, Future)
      idx == 1..Len(df_future)
      key == [i \in idx |-> df_future[i].DT]
  IN IF df_future = <<>> THEN {None}
     ELSE {[k |-> "turno", nxt |-> df_future[i], gap |-> Gap(df_future[i].DT - t)] :
             i \in FirstSorted(idx, key)}

(***************************************************************************)
(* render_month_calendar                                                   *)
(***************************************************************************)
\* the f-string "{HORA} · {TURNO}"
Evento(r) == r.HORA \o <<" ", "·", " ">> \o r.TURNO

\* events_by_day[day]: the events of the rows whose FECHA.dt.day is `day`,
\* appended row after row
RECURSIVE EventsOfDay(_, _)
EventsOfDay(d, day) ==
  IF d = <<>> THEN <<>>
  ELSE IF DayOf(Head(d).FECHA) = day
       THEN <<Evento(Head(d))>> \o EventsOfDay(Tail(d), day)
       ELSE EventsOfDay(Tail(d), day)

\* calendar.Calendar(firstweekday=0).monthdayscalendar(year, month), for a
\* month of the year of the schedule
MonthDaysCalendar(year, month) ==
  LET first == Weekday(MonthStart(month) + 1)
      nweeks == (first + DaysInMonth(month) + 6) \div 7
  IN [w \in 1..nweeks |->
        [c \in 1..7 |->
           LET day == 7 * (w - 1) + c - first
           IN IF day \in 1..DaysInMonth(month) THEN day ELSE 0]]

\* mutant of Cell: the ellipsis is added from two events on
Cell_EllipsisAtTwo(evs, day, highlight) ==
  [day |-> day, lines |-> SubSeq(evs, 1, IF Len(evs) < 2 THEN Len(evs) ELSE 2),
   ellipsis |-> Len(evs) >= 2, highlight |-> highlight]

\* one in-month cell (lines 130-145): the day number, evs[:2], the ellipsis
\* line and the highlight of today
Cell(evs, day, highlight) ==
  [day |-> day, lines |-> SubSeq(evs, 1, IF Len(evs) < 2 THEN Len(evs) ELSE 2),
   ellipsis |-> Len(evs) > 2, highlight |-> highlight]

Blank == [day |-> 0, lines |-> <<>>, ellipsis |-> FALSE, highlight |-> FALSE]

\* the rows of cells of the month table; today is datetime.now(TZ).date()
render_month_calendar(df_month, year, month, today) ==
  LET weeks == MonthDaysCalendar(year, month)
      is_current_month == year = Year /\ month = MonthOf(today)
  IN [w \in 1..Len(weeks) |->
        [c \in 1..7 |->
           LET day == weeks[w][c]
           IN IF day = 0 THEN Blank
              ELSE Cell(EventsOfDay(df_month, day), day,
                        is_current_month /\ day = DayOf(today))]]

(***************************************************************************)
(* One run of the script (lines 234-361), which Streamlit repeats from the *)
(* top on every interaction; the PDF export and the agenda cards render    *)
(* df_view without changing it and are left out                            *)
(***************************************************************************)
\* str.split(sep), empty pieces kept
RECURSIVE SplitBy(_, _, _, _)
SplitBy(s, sep, cur, acc) ==
  IF s = <<>> THEN Append(acc, cur)
  ELSE IF Head(s) = sep THEN SplitBy(Tail(s), sep, <<>>, Append(acc, cur))
       ELSE SplitBy(Tail(s), sep, Append(cur, Head(s)), acc)

\* sorted(df["TURNO"].unique()) and sorted(df["MONTH_LABEL"].unique()), as
\* the sets of options they offer
personas(d) == {d[i].TURNO : i \in 1..Len(d)}

months_present(d) == {MonthLabel(d[i].FECHA) : i \in 1..Len(d)}

\* the card not drawn because the run ended before it
NotDrawn == [k |-> "not_drawn"]

\* lines 352-361: the month calendar, drawn for a selected month in the
\* full layout only
Calendario(view, mes, movil, today) ==
  IF mes = TODOS \/ movil THEN <<>>
  ELSE LET parts == SplitBy(mes, "/", <<>>, <<>>)
           month == IntParse(parts[1]).v
           year == IntParse(parts[2]).v
       IN render_month_calendar(view, year, month, today)

\* the run at time t with the buttons pressed as given; the widgets hold
\* their new values
Run(t, hoy_click, semana_click, reset_click) ==
  /\ now' = t
  /\ rango_atajo' = Atajo(IF rango_atajo = Absent THEN None ELSE rango_atajo,
                          DateOf(t), hoy_click, semana_click, reset_click)
  /\ df_rango' = FilterRango(FilterMes(FilterTurno(df', turno_sel'), mes_sel'),
                             rango_atajo')
  /\ \E found \in {Buscar(df_rango', q')} :
       IF found.ok
       THEN /\ df_view' = found.view
            /\ nxt' \in Proximo(df_view', t)
            /\ cal' = Calendario(df_view', mes_sel', modo_movil', DateOf(t))
            /\ pc' = "shown"
       ELSE /\ df_view' = df_rango'
            /\ nxt' = NotDrawn
            /\ cal' = <<>>
            /\ pc' = "crashed"

(***************************************************************************)
(* Hour labels the parser is exercised on                                  *)
(***************************************************************************)
HourTokens ==
  {Dec(n) : n \in 0..14} \cup
  {<<"2", "3">>, <<"2", "4">>, <<"0", "8">>, <<"-", "1">>, <<"+", "8">>,
   <<"1", "_", "0">>, <<"a", "b", "c">>, <<"8", "A", "M">>, <<>>}

MeridiemTokens ==
  {<<"A", "M">>, <<"P", "M">>, <<"a", "m">>, <<"p", "M">>, <<"X", "M">>,
   <<"A">>, <<>>}

Pads == {<<>>, <<" ">>}

Seps == {<<" ">>, <<" ", " ">>, <<>>}

Trails == {<<>>, <<" ">>, <<" ", "x">>}

Labels ==
  {p \o t \o s \o m \o e :
     p \in Pads, t \in HourTokens, s \in Seps, m \in MeridiemTokens, e \in Trails}

(***************************************************************************)
(* Sheets the loader is exercised on                                       *)
(***************************************************************************)
MaxRows == 3

Row(f, hr, tu) == [FECHA |-> f, HORA |-> hr, TURNO |-> tu]

T8AM == Txt(<<"8", " ", "A", "M">>)

T4PM == Txt(<<" ", "4", " ", "p", "m">>)

T8XM == Txt(<<"8", " ", "X", "M">>)

TBlank == Txt(<<" ">>)

TAna == Txt(<<"A", "n", "a">>)

TLi == Txt(<<"L", "i", " ">>)

\* rows with every field present and well formed
GoodRows ==
  {Row(Ts(d), hr, tu) : d \in {5, 6}, hr \in {T8AM, T4PM}, tu \in {TAna, TLi}}

\* rows with a missing, blank, unparseable or malformed field
BadRows ==
  {Row(NaN, T8AM, TAna), Row(TBlank, T8AM, TAna), Row(Txt(<<"x">>), T4PM, TLi),
   Row(Ts(5), NaN, TAna), Row(Ts(5), TBlank, TAna), Row(Ts(5), T8XM, TAna),
   Row(Ts(6), T8AM, NaN), Row(Ts(6), T8AM, TBlank),
   Row(NaN, T8XM, TAna), Row(Ts(5), T8XM, NaN)}

Rows == GoodRows \cup BadRows

Sheets == UNION {[1..n -> Rows] : n \in 0..MaxRows}

(***************************************************************************)
(* Views, instants and queries the derived views are exercised on          *)
(***************************************************************************)
MaxView == 3

ViewEntries ==
  {Entry(Row(Ts(d), hr, tu)) : d \in {5, 6, 33}, hr \in {T8AM, T4PM}, tu \in {TAna, TLi}}

\* a view is a part of the loaded table, so it is ascending in DT
Views ==
  {v \in UNION {[1..n -> ViewEntries] : n \in 0..MaxView} :
     \A i \in 1..(Len(v) - 1) : v[i].DT <= v[i + 1].DT}

Nows ==
  {Combine(1, 0) + 59, Combine(4, 5) + 1770, Combine(5, 8), Combine(5, 8) + 1,
   Combine(6, 20), Combine(34, 0)}

QChars == {"a", "N", "5", "/", ".", "(", "+", " "}

\* what the text input holds: up to two characters
RawQueries ==
  {<<>>} \cup {<<c>> : c \in QChars} \cup {<<c, e>> : c \in QChars, e \in QChars}

MesLabels == {MonthLabel(5), MonthLabel(33)}

(***************************************************************************)
(* The session the script is exercised on                                  *)
(***************************************************************************)
\* Monday 5 January: two turns at 8 AM and one at 4 PM; then Tuesday 6, Monday
\* 12 January and Monday 2 February
HojaSesion ==
  <<Row(Ts(5), T8AM, TAna), Row(Ts(5), T8AM, TLi), Row(Ts(5), T4PM, TAna),
    Row(Ts(6), T8AM, TLi), Row(Ts(12), T8AM, TAna), Row(Ts(33), T4PM, TLi)>>

\* Sunday 4 January 2026, 22:00:00
T0 == Combine(4, 22)

\* the session is followed up to the end of this day of the year
MaxDays == 9

\* the time that passes before an interaction: none, or a day
Elapsed == {0, 86400}

SessionQueries == {<<>>, <<" ", "a", "N">>, <<"(">>}

(***************************************************************************)
(* Specification of the parser alone                                       *)
(***************************************************************************)
ParseIdle == h = <<>> /\ hora_t = Failed

LoadIdle == tabla = <<>> /\ df = <<>> /\ orden = <<>>

SessionIdle ==
  /\ now = 0 /\ rango_atajo = Absent /\ activo = "none"
  /\ turno_sel = TODOS /\ mes_sel = TODOS /\ q = <<>> /\ modo_movil = FALSE
  /\ df_rango = <<>> /\ df_view = <<>> /\ nxt = None /\ cal = <<>>

InitParse ==
  /\ pc = "parse"
  /\ h \in Labels
  /\ hora_t = Failed
  /\ LoadIdle
  /\ SessionIdle

Parse ==
  /\ pc = "parse"
  /\ hora_t' = parse_hora(h)
  /\ pc' = "parsed"
  /\ UNCHANGED <<h, loadVars, sessionVars>>

NextParse == Parse

SpecParse == InitParse /\ [][NextParse]_vars

(***************************************************************************)
(* Specification of the loader alone                                       *)
(***************************************************************************)
InitLoad ==
  /\ pc = "load"
  /\ tabla \in Sheets
  /\ df = <<>>
  /\ orden = <<>>
  /\ ParseIdle
  /\ SessionIdle

Load ==
  /\ pc = "load"
  /\ \E r \in cargar_datos(tabla) :
       /\ df' = r.df
       /\ orden' = r.orden
       /\ pc' = IF r.ok THEN "loaded" ELSE "load_failed"
  /\ UNCHANGED <<tabla, parseVars, sessionVars>>

NextLoad == Load

SpecLoad == InitLoad /\ [][NextLoad]_vars

(***************************************************************************)
(* Specifications of the quick search, the next turn and the calendar      *)
(* alone                                                                   *)
(***************************************************************************)
InitBuscar ==
  /\ pc = "buscar"
  /\ df_rango \in Views
  /\ q \in {Strip(raw) : raw \in RawQueries}
  /\ now = 0 /\ rango_atajo = Absent /\ activo = "none"
  /\ turno_sel = TODOS /\ mes_sel = TODOS /\ modo_movil = FALSE
  /\ df_view = <<>> /\ nxt = None /\ cal = <<>>
  /\ ParseIdle /\ LoadIdle

Busca ==
  /\ pc = "buscar"
  /\ LET found == Buscar(df_rango, q)
     IN /\ df_view' = (IF found.ok THEN found.view ELSE df_rango)
        /\ pc' = IF found.ok THEN "found" ELSE "crashed"
  /\ UNCHANGED <<parseVars, loadVars, now, rango_atajo, activo,
                 widgetVars, df_rango, nxt, cal>>

NextBuscar == Busca

SpecBuscar == InitBuscar /\ [][NextBuscar]_vars

InitProximo ==
  /\ pc = "proximo"
  /\ df_view \in Views
  /\ now \in Nows
  /\ rango_atajo = Absent /\ activo = "none"
  /\ turno_sel = TODOS /\ mes_sel = TODOS /\ q = <<>> /\ modo_movil = FALSE
  /\ df_rango = <<>> /\ nxt = NotDrawn /\ cal = <<>>
  /\ ParseIdle /\ LoadIdle

ProximoTurno ==
  /\ pc = "proximo"
  /\ nxt' \in Proximo(df_view, now)
  /\ pc' = "shown"
  /\ UNCHANGED <<parseVars, loadVars, now, rango_atajo, activo,
                 widgetVars, df_rango, df_view, cal>>

NextProximo == ProximoTurno

SpecProximo == InitProximo /\ [][NextProximo]_vars

InitCalendario ==
  /\ pc = "calendario"
  /\ mes_sel \in MesLabels
  /\ df_view \in {FilterMes(v, mes_sel) : v \in Views}
  /\ now \in Nows
  /\ rango_atajo = Absent /\ activo = "none"
  /\ turno_sel = TODOS /\ q = <<>> /\ modo_movil = FALSE
  /\ df_rango = <<>> /\ nxt = None /\ cal = <<>>
  /\ ParseIdle /\ LoadIdle

DrawCalendario ==
  /\ pc = "calendario"
  /\ cal' = Calendario(df_view, mes_sel, modo_movil, DateOf(now))
  /\ pc' = "drawn"
  /\ UNCHANGED <<parseVars, loadVars, now, rango_atajo, activo,
                 widgetVars, df_rango, df_view, nxt>>

NextCalendario == DrawCalendario

SpecCalendario == InitCalendario /\ [][NextCalendario]_vars

(***************************************************************************)
(* Specification of a session: the first run, then one run per interaction *)
(***************************************************************************)
InitSession ==
  /\ pc = "start"
  /\ tabla = HojaSesion /\ df = <<>> /\ orden = <<>>
  /\ now = T0 /\ rango_atajo = Absent /\ activo = "none"
  /\ turno_sel = TODOS /\ mes_sel = TODOS /\ q = <<>> /\ modo_movil = FALSE
  /\ df_rango = <<>> /\ df_view = <<>> /\ nxt = NotDrawn /\ cal = <<>>
  /\ ParseIdle

\* the first run: the table is loaded and cached, the widgets hold their
\* defaults and no button is pressed
Open ==
  /\ pc = "start"
  /\ \E r \in cargar_datos(tabla) :
       IF r.ok
       THEN /\ df' = r.df
            /\ orden' = r.orden
            /\ UNCHANGED widgetVars
            /\ Run(now, FALSE, FALSE, FALSE)
       ELSE /\ pc' = "load_failed"
            /\ UNCHANGED <<df, orden, sessionVars>>
  /\ UNCHANGED <<tabla, parseVars, activo>>

Ready == pc \in {"shown", "crashed"}

\* the instants the next interaction can take place at
Later == {now + dt : dt \in {e \in Elapsed : now + e <= MaxDays * 86400}}

PressHoy ==
  /\ Ready
  /\ UNCHANGED <<parseVars, loadVars, widgetVars>>
  /\ \E t \in Later : Run(t, TRUE, FALSE, FALSE)
  /\ activo' = "hoy"

PressSemana ==
  /\ Ready
  /\ UNCHANGED <<parseVars, loadVars, widgetVars>>
  /\ \E t \in Later : Run(t, FALSE, TRUE, FALSE)
  /\ activo' = "semana"

PressReset ==
  /\ Ready
  /\ UNCHANGED <<parseVars, loadVars, widgetVars>>
  /\ \E t \in Later : Run(t, FALSE, FALSE, TRUE)
  /\ activo' = "none"

SelectTurno ==
  /\ Ready
  /\ UNCHANGED <<parseVars, loadVars, mes_sel, q, modo_movil, activo>>
  /\ turno_sel' \in ({TODOS} \cup personas(df)) \ {turno_sel}
  /\ \E t \in Later : Run(t, FALSE, FALSE, FALSE)

SelectMes ==
  /\ Ready
  /\ UNCHANGED <<parseVars, loadVars, turno_sel, q, modo_movil, activo>>
  /\ mes_sel' \in ({TODOS} \cup months_present(df)) \ {mes_sel}
  /\ \E t \in Later : Run(t, FALSE, FALSE, FALSE)

TextInput ==
  /\ Ready
  /\ UNCHANGED <<parseVars, loadVars, turno_sel, mes_sel, modo_movil, activo>>
  /\ \E raw \in SessionQueries : q' = Strip(raw)
  /\ \E t \in Later : Run(t, FALSE, FALSE, FALSE)

\* the two layouts create their text inputs under different labels, so the
\* toggle brings a new, empty text input
ToggleMovil ==
  /\ Ready
  /\ UNCHANGED <<parseVars, loadVars, turno_sel, mes_sel, activo>>
  /\ modo_movil' = ~modo_movil
  /\ q' = <<>>
  /\ \E t \in Later : Run(t, FALSE, FALSE, FALSE)

NextSession ==
  \/ Open
  \/ PressHoy
  \/ PressSemana
  \/ PressReset
  \/ SelectTurno
  \/ SelectMes
  \/ TextInput
  \/ ToggleMovil

SpecSession == InitSession /\ [][NextSession]_vars

(***************************************************************************)
(* Claims about parse_hora (checked under SpecParse)                       *)
(***************************************************************************)
\* the label "<hh> <m>" exactly as the claims write it
LabelOf(hh, m) == Dec(hh) \o <<" ">> \o m

\* the normalisation table of the specification, row by row
Table24(hh, m) ==
  CASE hh = 12 /\ m = AM -> 0
    [] hh \in 1..11 /\ m = AM -> hh
    [] hh = 12 /\ m = PM -> 12
    [] hh \in 1..11 /\ m = PM -> hh + 12

\* a label the specification calls well formed: after trimming and upper-casing,
\* exactly two tokens, an integer hour in 1..12 and AM or PM
WellFormedLabel(label) ==
  LET parts == Split(Upper(Strip(label)))
  IN /\ Len(parts) = 2
     /\ IntParse(parts[1]).ok
     /\ IntParse(parts[1]).v \in 1..12
     /\ parts[2] \in {AM, PM}

\* C2: parse_hora returns a time exactly for the well-formed labels (two tokens,
\* integer hour in 1..12, AM or PM) and fails for every other label, an hour
\* outside 1..12 such as "13 AM" included.
C2_OnlyWellFormedParse ==
  pc = "parsed" => (hora_t.ok <=> WellFormedLabel(h))

\* C3: for every hour hh in 1..12 and meridiem m, parse_hora("hh m") is the
\* 24-hour time of the table, its hour in 0..23 and its minutes 0.
C3_TableHolds ==
  \A hh \in 1..12, m \in {AM, PM} :
    (pc = "parsed" /\ h = LabelOf(hh, m)) =>
      /\ hora_t.ok
      /\ hora_t.hour = Table24(hh, m)
      /\ hora_t.hour \in 0..23
      /\ hora_t.minute = 0

\* C3 witness: "12 PM" and its result 12:00 are reached
C3_Witness ==
  pc = "parsed" /\ h = LabelOf(12, PM) /\ hora_t.ok /\ hora_t.hour = 12

(***************************************************************************)
(* Claims about cargar_datos (checked under SpecLoad)                      *)
(***************************************************************************)
Returned == {orden[n] : n \in 1..Len(orden)}

IsBlank(cell) == cell.k = "str" /\ Strip(cell.s) = <<>>

\* a row whose hour label is there but does not parse
MalformedHour(row) ==
  /\ row.HORA.k = "str"
  /\ ~IsBlank(row.HORA)
  /\ ~parse_hora(row.HORA.s).ok

\* a row with a date, a label that parses and an assignee
ValidRow(row) ==
  /\ row.FECHA.k = "ts"
  /\ row.HORA.k = "str" /\ parse_hora(row.HORA.s).ok
  /\ row.TURNO.k = "str" /\ ~IsBlank(row.TURNO)

\* a row the specification excludes: its date does not parse, or one of the
\* three fields is missing or empty after trimming
ExcludedRow(row) ==
  \/ row.FECHA.k # "ts"
  \/ row.HORA = NaN \/ IsBlank(row.HORA)
  \/ row.TURNO = NaN \/ IsBlank(row.TURNO)

\* a row dropna keeps: a date that parses and no missing field
Survives(row) == row.FECHA.k = "ts" /\ row.HORA # NaN /\ row.TURNO # NaN

\* C1: a malformed hour label never makes the load fail; its row is absent
\* from the result and every valid row of the same sheet is present.
C1_MalformedRowsDropped ==
  (pc \in {"loaded", "load_failed"} /\ \E i \in 1..Len(tabla) : MalformedHour(tabla[i])) =>
    /\ pc = "loaded"
    /\ \A i \in 1..Len(tabla) :
         /\ MalformedHour(tabla[i]) => i \notin Returned
         /\ ValidRow(tabla[i]) => i \in Returned

\* C4: every row whose date fails to parse or that has a missing or blank
\* required field is excluded from the result, and no entry of the result has
\* an empty assignee or an empty hour label.
C4_BlankRowsExcluded ==
  pc = "loaded" =>
    /\ \A i \in 1..Len(tabla) : ExcludedRow(tabla[i]) => i \notin Returned
    /\ \A n \in 1..Len(df) : df[n].TURNO # <<>> /\ df[n].HORA # <<>>

SortedByDT == \A n \in 1..(Len(df) - 1) : df[n].DT <= df[n + 1].DT

TodayWindow(t) ==
  [k |-> "rango", a |-> (t \div 86400) * 86400, b |-> (t \div 86400) * 86400 + 86400]

\* [midnight of the latest Monday not after the day of t, midnight of the next
\* Monday); 5 January 2026 is a Monday
WeekWindow(t) ==
  LET monday == CHOOSE m \in (DateOf(t) - 6)..DateOf(t) : (m - 5) % 7 = 0
  IN [k |-> "rango", a |-> (monday - 1) * 86400, b |-> (monday + 6) * 86400]

\* the entries of view d whose instant lies in the half-open window w
InWindow(d, w) == LET In(r) == w.a <= r.DT /\ r.DT < w.b IN SelectSeq(d, In)

\* the view the quick range filters: the table narrowed by the two selectors
Selected ==
  LET Pick(r) == /\ turno_sel # TODOS => r.TURNO = turno_sel
                 /\ mes_sel # TODOS => MonthLabel(r.FECHA) = mes_sel
  IN SelectSeq(df, Pick)

\* C6: the selector holds at most one range; it starts empty; "Hoy" makes the
\* range of today the active one and "Esta semana" the range of the week,
\* whatever was active; the reset empties it; every other interaction leaves
\* it as it was.
C6_SelectorSteps ==
  /\ rango_atajo = Absent
  /\ [](\/ rango_atajo \in {Absent, None}
        \/ rango_atajo.k = "rango" /\ rango_atajo.a < rango_atajo.b)
  /\ [][/\ Open /\ pc' = "shown" => rango_atajo' = None
        /\ PressHoy => rango_atajo' = TodayWindow(now')
        /\ PressSemana => rango_atajo' = WeekWindow(now')
        /\ PressReset => rango_atajo' = None
        /\ (SelectTurno \/ SelectMes \/ TextInput \/ ToggleMovil) =>
             /\ rango_atajo' = rango_atajo
             /\ df_rango' = (IF rango_atajo' = None THEN Selected'
                             ELSE InWindow(Selected', rango_atajo'))]_vars

\* C6 witness: the range of a week is active, unchanged, after an assignee was
\* selected and a query typed
C6_Witness ==
  /\ pc = "shown" /\ activo = "semana" /\ rango_atajo = WeekWindow(now)
  /\ turno_sel # TODOS /\ q # <<>>

\* C7: whenever a quick range is active, the range filter keeps exactly the
\* entries in the window of that range relative to the date of the current
\* interaction, also when the range was activated on an earlier day or week.
C7_WindowFollowsToday ==
  (pc \in {"shown", "crashed"} /\ activo # "none") =>
    df_rango = InWindow(Selected,
                        IF activo = "hoy" THEN TodayWindow(now) ELSE WeekWindow(now))

(***************************************************************************)
(* Claims about the next turn (checked under SpecProximo)                  *)
(***************************************************************************)
\* the positions of the view at or after now, and those of least instant
FuturePos == {i \in 1..Len(df_view) : df_view[i].DT >= now}

EarliestPos == {i \in FuturePos : \A j \in FuturePos : df_view[i].DT <= df_view[j].DT}

\* the gap shown splits the time left, rounded down to minutes
GapIsExact ==
  /\ nxt.gap.days >= 0
  /\ nxt.gap.hours \in 0..23
  /\ nxt.gap.mins \in 0..59
  /\ nxt.gap.days * 1440 + nxt.gap.hours * 60 + nxt.gap.mins = (nxt.nxt.DT - now) \div 60

MesNum == CHOOSE m \in 1..12 : mes_sel = Fmt2(m) \o <<"/", "2", "0", "2", "6">>

\* the turns of the view on a day of that month, in the order of the view
TurnsOn(day) ==
  LET On(r) == r.FECHA = MonthStart(MesNum) + day IN SelectSeq(df_view, On)

\* the cells of the grid that carry a day number
CellsOf(day) ==
  {<<w, c>> \in (1..Len(cal)) \X (1..7) : cal[w][c].day = day}

Min2(k) == IF k < 2 THEN k ELSE 2

\* C9: the cell of every day of the month with k turns lists the first
\* min(k, 2) of them as "<hour label> · <assignee>" and carries the ellipsis
\* exactly when k > 2; a cell with no turn shows the day number only.
C9_CellContents ==
  pc = "drawn" =>
    \A day \in 1..DaysInMonth(MesNum) :
      /\ Cardinality(CellsOf(day)) = 1
      /\ \A wc \in CellsOf(day) :
           LET cell == cal[wc[1]][wc[2]]
               turns == TurnsOn(day)
           IN /\ Len(cell.lines) = Min2(Len(turns))
              /\ \A n \in 1..Len(cell.lines) :
                   cell.lines[n] = turns[n].HORA \o <<" ", "·", " ">> \o turns[n].TURNO
              /\ cell.ellipsis <=> Len(turns) > 2

\* C9 witness: a day with three turns, drawn as two lines and the ellipsis
C9_Witness ==
  /\ pc = "drawn"
  /\ \E day \in 1..DaysInMonth(MesNum) :
       /\ Len(TurnsOn(day)) = 3
       /\ \E wc \in CellsOf(day) :
            Len(cal[wc[1]][wc[2]].lines) = 2 /\ cal[wc[1]][wc[2]].ellipsis

(***************************************************************************)
(* Claims about the quick search (checked under SpecBuscar)                *)
(***************************************************************************)
\* sub occurs in text as a literal substring, ignoring case
Contains(sub, text) ==
  \E i \in 0..(Len(text) - Len(sub)) :
    SubSeq(Lower(text), i + 1, i + Len(sub)) = Lower(sub)

\* C10: for every query, the search keeps an entry exactly when the query
\* occurs, as a literal substring and ignoring case, in the assignee, the hour
\* label or the date as dd/mm/yy; an empty query keeps every entry.
C10_LiteralSubstring ==
  pc \in {"found", "crashed"} =>
    /\ pc = "found"
    /\ LET Hit(r) == \/ Contains(q, r.TURNO)
                     \/ Contains(q, r.HORA)
                     \/ Contains(q, FechaStr(r.FECHA))
       IN df_view = SelectSeq(df_rango, Hit)

====
